---- MODULE Spec2Model ----
(***************************************************************************)
(* Endicia (USPS) shipping integration of the sale order: src/sale.py.     *)
(*                                                                         *)
(* One sale order is tracked.  Decimal amounts are integers: money in      *)
(* minor units (cents), quantities and product weights in hundredths.      *)
(* Of a line, the fields that some operation reads or a claim speaks of    *)
(* are kept: type, description, taxes and sequence are not.                *)
(* A field that is None and a field that is Decimal(0) are both written 0: *)
(* the code only ever tests such fields for truth.                         *)
(***************************************************************************)
EXTENDS Integers, Sequences, FiniteSets, TLC

VARIABLES state, carrier, endicia_mailclass, currency, lines, run, last

vars == <<state, carrier, endicia_mailclass, currency, lines, run, last>>

(***************************************************************************)
(* Bounds of the model.                                                    *)
(***************************************************************************)
\* number of configured endicia.mailclass records (ids 1..NClasses)
NClasses == 3
\* largest postage price the remote service answers with, in cents
MaxCost == 2
\* largest number of lines on the order
MaxLines == 3

(***************************************************************************)
(* Reference data of the host system that the code reads.                  *)
(***************************************************************************)
\* Sale.state values of the host workflow (src/sale.py:71, :94)
States == {"draft", "quotation", "confirmed", "processing", "done", "cancel"}

\* the transitions of the host's sale workflow
Transitions ==
    { <<"draft", "quotation">>, <<"quotation", "confirmed">>,
      <<"confirmed", "processing">>, <<"processing", "done">>,
      <<"draft", "cancel">>, <<"quotation", "cancel">>,
      <<"quotation", "draft">>, <<"cancel", "draft">> }

\* carrier of the sale: none, the Endicia carrier, or a carrier with another
\* carrier_cost_method
Carriers == {"none", "endicia", "other"}

MailClasses == 1 .. NClasses

\* endicia.mailclass.value: a required, hence non-empty, field; the value of
\* record m is written m, and 0 is None
MailclassValue(m) == m

\* currency.currency records: rate relative to USD as num/den; every currency
\* rounds to its minor unit
Currencies ==
    [ USD |-> [num |-> 1, den |-> 1],
      XAU |-> [num |-> 1, den |-> 2] ]

\* product.uom records: factor num/den towards the base unit of the category
\* (one unit, one ounce) and rounding in hundredths
Uoms ==
    [ u   |-> [num |-> 1,    den |-> 1,      rounding |-> 100],
      pr  |-> [num |-> 2,    den |-> 1,      rounding |-> 1],
      oz  |-> [num |-> 1,    den |-> 1,      rounding |-> 1],
      lb  |-> [num |-> 16,   den |-> 1,      rounding |-> 1],
      g   |-> [num |-> 353,  den |-> 10000,  rounding |-> 1] ]

\* product.product records: weight in hundredths of weight_uom, 0 when unset
Products ==
    [ ship  |-> [type |-> "service", weight |-> 0,    weight_uom |-> "oz", default_uom |-> "u"],
      svc   |-> [type |-> "service", weight |-> 0,    weight_uom |-> "oz", default_uom |-> "u"],
      book  |-> [type |-> "goods",   weight |-> 120,  weight_uom |-> "oz", default_uom |-> "u"],
      anvil |-> [type |-> "goods",   weight |-> 1600, weight_uom |-> "lb", default_uom |-> "u"],
      pen   |-> [type |-> "goods",   weight |-> 2840, weight_uom |-> "g",  default_uom |-> "u"],
      eggs  |-> [type |-> "goods",   weight |-> 120,  weight_uom |-> "oz", default_uom |-> "pr"],
      bare  |-> [type |-> "goods",   weight |-> 0,    weight_uom |-> "oz", default_uom |-> "u"] ]

\* Carrier.carrier_product of the Endicia carrier
CarrierProduct == "ship"

\* product reference of a line: a product or None
ProductRefs == DOMAIN Products \cup {"none"}

\* line quantities, in hundredths
Quantities == {-100, 0, 50, 100, 200}

LineUnits == {"u", "pr"}

(***************************************************************************)
(* Arithmetic helpers.                                                     *)
(***************************************************************************)
\* math.ceil of the rational n/d, d > 0
Ceil(n, d) == IF n % d = 0 THEN n \div d ELSE (n \div d) + 1

\* Python 2 round() of the non-negative rational n/d: half away from zero
RoundHalfUp(n, d) == (2 * n + d) \div (2 * d)

\* Decimal.quantize(ROUND_HALF_EVEN) of the non-negative rational n/d
RoundHalfEven(n, d) ==
    LET q == n \div d
        r == n % d
    IN  IF 2 * r < d THEN q
        ELSE IF 2 * r > d THEN q + 1
        ELSE IF q % 2 = 0 THEN q ELSE q + 1

(***************************************************************************)
(* Host conversions called by the code.                                    *)
(***************************************************************************)
\* ProductUom.compute_qty(from_uom, qty, to_uom) with its default round=True,
\* for a positive quantity of n/d hundredths: the amount in to_uom, rounded
\* half away from zero to to_uom.rounding.  The result is in hundredths.
compute_qty(from_uom, n, d, to_uom) ==
    LET f == Uoms[from_uom]
        t == Uoms[to_uom]
    IN  RoundHalfUp(n * f.num * t.den, d * f.den * t.num * t.rounding)
            * t.rounding

\* Currency.compute(usd, amount, to_currency): amount * rate, rounded half
\* even to the minor unit of to_currency
CurrencyCompute(amount, to_currency) ==
    RoundHalfEven(amount * Currencies[to_currency].num,
                  Currencies[to_currency].den)

(***************************************************************************)
(* SaleLine.get_weight_for_endicia                                         *)
(***************************************************************************)
\* the result of a call: a weight in whole ounces, or the user error raised
Weighed(oz) == [out |-> "ok", oz |-> oz]
WeightRequired == [out |-> "MissingWeightError", oz |-> 0]

get_weight_for_endicia(line) ==
    IF line.product = "none" \/ Products[line.product].type = "service"
          \/ line.quantity <= 0
    THEN Weighed(0)
    ELSE LET p == Products[line.product]
         IN  IF p.weight = 0
             THEN WeightRequired
             ELSE LET quantity ==
                          IF line.unit # p.default_uom
                          THEN compute_qty(line.unit, line.quantity, 1,
                                           p.default_uom)
                          ELSE line.quantity
                      \* float(weight) * quantity, in ten-thousandths
                      weight == p.weight * quantity
                  IN  IF p.weight_uom # "oz"
                      THEN Weighed(Ceil(compute_qty(p.weight_uom, weight,
                                                    100, "oz"), 100))
                      ELSE Weighed(Ceil(weight, 10000))

(***************************************************************************)
(* The order's lines.                                                      *)
(***************************************************************************)
\* a product line of the order as the user entered it
ProductLine(id, product, quantity, unit) ==
    [id |-> id, product |-> product, quantity |-> quantity, unit |-> unit, unit_price |-> 10, shipment_cost |-> 0,
     amount |-> (10 * quantity) \div 100]

\* the values of the line apply_endicia_shipping creates
ShippingLine(id, shipment_cost) ==
    [id |-> id, product |-> CarrierProduct, quantity |-> 100, unit |-> Products[CarrierProduct].default_uom,
     unit_price |-> shipment_cost, shipment_cost |-> shipment_cost,
     amount |-> shipment_cost]

\* the lines flagged as shipment-cost lines: those whose shipment_cost is
\* set and not zero
ShipmentCostLines(ls) == {l \in ls : l.shipment_cost # 0}

\* mutant of to_delete: the earlier shipment-cost lines are left in place
to_delete_nothing(ls) == {}

\* [line for line in self.lines if line.shipment_cost]
to_delete(ls) == {l \in ls : l.shipment_cost # 0}

\* the id the line table gives a created line: one no line of the order has
FreshId(ls) == CHOOSE i \in 1 .. (Cardinality(ls) + 1) : \A l \in ls : l.id # i

\* Sale.write([self], {'lines': [('create', [vals]), ('delete', to_delete)]})
WriteLines(ls, created, deleted) == (ls \ deleted) \cup {created}

\* the line collections an order starts with: at most one shipment-cost
\* line (left by the host's own shipment-cost step)
OrderLines ==
    { {},
      {ProductLine(1, "book", 200, "u")},
      {ProductLine(1, "pen", 100, "u"), ProductLine(2, "svc", 100, "u")},
      {ProductLine(1, "bare", 100, "u")},
      {ProductLine(1, "book", 100, "u"), ShippingLine(2, 2)} }

\* sum(map(lambda line: line.get_weight_for_endicia(), self.lines))
RECURSIVE SumWeights(_)
SumWeights(ls) ==
    IF ls = {} THEN 0
    ELSE LET l == CHOOSE x \in ls : TRUE
         IN  get_weight_for_endicia(l).oz + SumWeights(ls \ {l})

(***************************************************************************)
(* The remote service.                                                     *)
(***************************************************************************)
\* what send_request() does: answer a postage price, raise RequestError, or
\* fail with any other exception (transport failure, malformed answer)
Responses ==
    {[kind |-> "price", amount |-> c] : c \in 0 .. MaxCost}
        \cup {[kind |-> "RequestError", amount |-> 0],
              [kind |-> "Exception", amount |-> 0]}

\* outcomes raised with raise_user_error: instances of UserError
UserErrors == {"MailClassMissingError", "MissingWeightError", "CarrierRequestError"}

Failures == UserErrors \cup {"Exception"}

(***************************************************************************)
(* Sale.get_endicia_shipping_cost                                          *)
(***************************************************************************)
\* mutant of MailclassUnresolved: the check is left out
MailclassUnchecked(mailclass) == FALSE

\* not mailclass and not self.endicia_mailclass
MailclassUnresolved(mailclass) == mailclass = 0 /\ endicia_mailclass = 0

\* mutant of get_endicia_shipping_cost: a request the service refuses is
\* sent a second time
get_endicia_shipping_cost_retrying(mailclass, response) ==
    IF MailclassUnresolved(mailclass)
    THEN [out |-> "MailClassMissingError", sent |-> <<>>, cost |-> 0]
    ELSE IF \E l \in lines : get_weight_for_endicia(l).out # "ok"
    THEN [out |-> "MissingWeightError", sent |-> <<>>, cost |-> 0]
    ELSE LET request ==
                 [mailclass |-> IF mailclass # 0 THEN mailclass
                                ELSE MailclassValue(endicia_mailclass),
                  weightoz |-> SumWeights(lines)]
         IN  IF response.kind = "RequestError"
             THEN [out |-> "CarrierRequestError", sent |-> <<request, request>>,
                   cost |-> 0]
             ELSE IF response.kind = "Exception"
             THEN [out |-> "Exception", sent |-> <<request>>, cost |-> 0]
             ELSE [out |-> "ok", sent |-> <<request>>, cost |-> response.amount]

\* the outcome of a rate request: the requests sent, and the price or the
\* exception raised
get_endicia_shipping_cost(mailclass, response) ==
    IF MailclassUnresolved(mailclass)
    THEN [out |-> "MailClassMissingError", sent |-> <<>>, cost |-> 0]
    ELSE IF \E l \in lines : get_weight_for_endicia(l).out # "ok"
    THEN [out |-> "MissingWeightError", sent |-> <<>>, cost |-> 0]
    ELSE LET request ==
                 [mailclass |-> IF mailclass # 0 THEN mailclass
                                ELSE MailclassValue(endicia_mailclass),
                  weightoz |-> SumWeights(lines)]
         IN  IF response.kind = "RequestError"
             THEN [out |-> "CarrierRequestError", sent |-> <<request>>, cost |-> 0]
             ELSE IF response.kind = "Exception"
             THEN [out |-> "Exception", sent |-> <<request>>, cost |-> 0]
             ELSE [out |-> "ok", sent |-> <<request>>, cost |-> response.amount]

\* Carrier.get_sale_price() of the Endicia carrier, with the sale in the
\* context: the rate of the sale's own mail class
get_sale_price(response) == get_endicia_shipping_cost(0, response)

(***************************************************************************)
(* Sale.get_endicia_shipping_rates                                         *)
(***************************************************************************)
\* Sale._get_endicia_mail_classes: Mailclass.search([]), in id order
EligibleMailClasses == [i \in 1 .. NClasses |-> i]

\* Sale._make_endicia_rate_line
make_endicia_rate_line(mailclass, shipment_rate) ==
    [mailclass |-> mailclass, cost |-> shipment_rate, currency |-> "USD"]

\* mutant of Caught: only the missing mail class is caught
CaughtMailclassMissing == {"MailClassMissingError"}

\* the exceptions `except UserError` catches
Caught == UserErrors

\* the loop over the mail classes from position i on; responses[m] is what
\* the service does with the request for mail class m
RECURSIVE rates_loop(_, _, _, _, _)
rates_loop(i, silent, responses, rate_lines, sent) ==
    IF i > Len(EligibleMailClasses)
    THEN [out |-> "ok", sent |-> sent,
          options |-> SelectSeq(rate_lines, LAMBDA o : DOMAIN o # {})]
    ELSE LET mailclass == EligibleMailClasses[i]
             r == get_endicia_shipping_cost(MailclassValue(mailclass),
                                            responses[mailclass])
         IN  IF r.out \in Caught
             THEN IF ~silent
                  THEN [out |-> r.out, sent |-> sent \o r.sent, options |-> <<>>]
                  ELSE rates_loop(i + 1, silent, responses, rate_lines,
                                  sent \o r.sent)
             ELSE IF r.out # "ok"
             THEN [out |-> r.out, sent |-> sent \o r.sent, options |-> <<>>]
             ELSE rates_loop(i + 1, silent, responses,
                             Append(rate_lines,
                                    make_endicia_rate_line(mailclass, r.cost)),
                             sent \o r.sent)

\* mutant of get_endicia_shipping_rates: the silent flag is not looked at
get_endicia_shipping_rates_silently(silent, responses) ==
    rates_loop(1, TRUE, responses, <<>>, <<>>)

get_endicia_shipping_rates(silent, responses) ==
    rates_loop(1, silent, responses, <<>>, <<>>)

(***************************************************************************)
(* Sale.apply_endicia_shipping                                             *)
(***************************************************************************)
\* mutant of UsesEndicia: the carrier's cost method is not looked at
UsesAnyCarrier == carrier # "none"

\* self.carrier and self.carrier.carrier_cost_method == 'endicia'
UsesEndicia == carrier = "endicia"

\* mutant of NoCharge: only a missing price counts, a price of 0 does not
NoPrice(shipment_cost_usd) == FALSE

\* not shipment_cost_usd[0]
NoCharge(shipment_cost_usd) == shipment_cost_usd = 0

\* the outcome of a call: "written" when the shipping line was replaced,
\* "returned" when the method returned without writing, or the exception
apply_endicia_shipping(response) ==
    LET unchanged == [sent |-> <<>>, cost |-> 0, lines |-> lines]
    IN  IF ~UsesEndicia
        THEN [out |-> "returned"] @@ unchanged
        ELSE IF endicia_mailclass = 0
        THEN [out |-> "MailClassMissingError"] @@ unchanged
        ELSE LET r == get_sale_price(response)
             IN  IF r.out # "ok"
                 THEN [unchanged EXCEPT !.sent = r.sent] @@ [out |-> r.out]
                 ELSE IF NoCharge(r.cost)
                 THEN [unchanged EXCEPT !.sent = r.sent] @@ [out |-> "returned"]
                 ELSE LET shipment_cost == CurrencyCompute(r.cost, currency)
                      IN  [out |-> "written", sent |-> r.sent, cost |-> r.cost,
                           lines |-> WriteLines(lines,
                                                ShippingLine(FreshId(lines),
                                                             shipment_cost),
                                                to_delete(lines))]

(***************************************************************************)
(* State.                                                                  *)
(*   state, carrier, endicia_mailclass, currency, lines: the sale's fields *)
(*   last:   the latest call of a method of src/sale.py on the order as it *)
(*           is now, with its inputs, the answers of the remote service to *)
(*           the requests it sent, and its outcome; NoCall once the order  *)
(*           was edited or moved on in the workflow                        *)
(*   run:    the number (up to 2) of shipping lines written since the      *)
(*           carrier or mail class last changed, and the lines that were   *)
(*           no shipment-cost lines before the first of them               *)
(***************************************************************************)
NoLine == [product |-> "none", quantity |-> 0, unit |-> "u"]

NoCall ==
    [op |-> "none", arg |-> 0, silent |-> FALSE, responses |-> <<>>,
     line |-> NoLine, out |-> "ok", sent |-> <<>>, cost |-> 0,
     options |-> <<>>, oz |-> 0, pre |-> {}]

NoRun == [n |-> 0, base |-> {}]

Init ==
    /\ state = "draft"
    /\ carrier \in Carriers
    /\ endicia_mailclass \in 0 .. NClasses
    /\ currency \in DOMAIN Currencies
    /\ lines \in OrderLines
    /\ run = NoRun
    /\ last = NoCall

\* the record of a call on the order as it is now
Called(op) == [NoCall EXCEPT !.op = op, !.pre = lines]

(***************************************************************************)
(* Read-only calls.                                                        *)
(***************************************************************************)
\* sale.get_endicia_shipping_cost(mailclass)
RequestRate ==
    \E mailclass \in 0 .. NClasses, response \in Responses :
        \E r \in {get_endicia_shipping_cost(mailclass, response)} :
            /\ last' = [Called("get_endicia_shipping_cost") EXCEPT
                           !.arg = mailclass, !.responses = <<response>>,
                           !.out = r.out, !.sent = r.sent, !.cost = r.cost]
            /\ UNCHANGED <<state, carrier, endicia_mailclass, currency, lines,
                           run>>

\* sale.get_endicia_shipping_rates(silent)
ShopRates ==
    \E silent \in BOOLEAN, responses \in [1 .. NClasses -> Responses] :
        \E r \in {get_endicia_shipping_rates(silent, responses)} :
            /\ last' = [Called("get_endicia_shipping_rates") EXCEPT
                           !.silent = silent, !.responses = responses,
                           !.out = r.out, !.sent = r.sent, !.options = r.options]
            /\ UNCHANGED <<state, carrier, endicia_mailclass, currency, lines,
                           run>>

\* line.get_weight_for_endicia() on a line of any order
WeighLine ==
    \E product \in ProductRefs, quantity \in Quantities, unit \in LineUnits :
        \E line \in {[product |-> product, quantity |-> quantity, unit |-> unit]} :
        \E r \in {get_weight_for_endicia(line)} :
            /\ last' = [Called("get_weight_for_endicia") EXCEPT
                           !.line = line, !.out = r.out, !.oz = r.oz]
            /\ UNCHANGED <<state, carrier, endicia_mailclass, currency, lines,
                           run>>

(***************************************************************************)
(* Calls that apply the shipping cost.                                     *)
(***************************************************************************)
\* the effect on the order of `for sale in sales: sale.apply_endicia_shipping()`
\* in method op, which has moved the order to workflow state st before; an
\* exception leaves the writes of the method's transaction undone
Applied(op, st, response) ==
    \E r \in {apply_endicia_shipping(response)} :
        /\ r.out = "written" => Cardinality(r.lines) <= MaxLines
        /\ last' = [Called(op) EXCEPT
                       !.responses = IF r.sent = <<>> THEN <<>> ELSE <<response>>,
                       !.out = r.out, !.sent = r.sent, !.cost = r.cost]
        /\ lines' = IF r.out \in Failures THEN lines ELSE r.lines
        /\ state' = IF r.out \in Failures THEN state ELSE st
        /\ run' = IF r.out # "written" THEN run
                  ELSE IF run.n = 0
                       THEN [n |-> 1, base |-> lines \ ShipmentCostLines(lines)]
                  ELSE [n |-> 2, base |-> run.base]
        /\ UNCHANGED <<carrier, endicia_mailclass, currency>>

\* Sale.update_endicia_shipment_cost([sale]): the button's method
update_endicia_shipment_cost ==
    \E response \in Responses :
        Applied("update_endicia_shipment_cost", state, response)

\* Sale.quote([sale]): the host's transition into quotation, taken when the
\* workflow allows it from the current state, then the shipping cost
quote ==
    \E response \in Responses :
        Applied("quote",
                IF <<state, "quotation">> \in Transitions THEN "quotation"
                ELSE state,
                response)

(***************************************************************************)
(* The user and the host workflow.                                         *)
(***************************************************************************)
\* the user picks a carrier on the sale
set_carrier ==
    \E c \in Carriers :
        /\ c # carrier
        /\ carrier' = c
        /\ run' = NoRun
        /\ last' = NoCall
        /\ UNCHANGED <<state, endicia_mailclass, currency, lines>>

\* the user picks a mail class: the field is read-only unless the sale is
\* in draft or quotation
set_endicia_mailclass ==
    \E m \in 0 .. NClasses :
        /\ state \in {"draft", "quotation"}
        /\ m # endicia_mailclass
        /\ endicia_mailclass' = m
        /\ run' = NoRun
        /\ last' = NoCall
        /\ UNCHANGED <<state, carrier, currency, lines>>

\* the other transitions of the host workflow
transition ==
    \E to \in States \ {"quotation"} :
        /\ <<state, to>> \in Transitions
        /\ state' = to
        /\ last' = NoCall
        /\ UNCHANGED <<carrier, endicia_mailclass, currency, lines, run>>

Next ==
    \/ update_endicia_shipment_cost
    \/ quote
    \/ set_carrier
    \/ set_endicia_mailclass
    \/ transition

Spec == Init /\ [][Next]_vars

\* one call on an order as entered.  The rate and weight calls change
\* nothing and keep nothing: what one such call does on an order is what
\* every such call does on it.
FirstCall == last.op = "none"

NextCall ==
    \/ FirstCall /\ RequestRate
    \/ FirstCall /\ ShopRates
    \/ FirstCall /\ WeighLine
    \/ FirstCall /\ update_endicia_shipment_cost

SpecCall == Init /\ [][NextCall]_vars

(***************************************************************************)
(* Properties.                                                             *)
(***************************************************************************)
\* the methods that run apply_endicia_shipping on the order
ApplyOps == {"update_endicia_shipment_cost", "quote"}

AppliedLast == last.op \in ApplyOps

\* the lines the latest call created
Created == lines \ last.pre

C2_TwiceOneLineLatestCost ==
    (AppliedLast /\ last.out = "written" /\ run.n = 2) =>
        /\ Cardinality(ShipmentCostLines(lines)) = 1
        /\ \A l \in ShipmentCostLines(lines) :
               /\ l.unit_price = CurrencyCompute(last.cost, currency)
               /\ l.amount = CurrencyCompute(last.cost, currency)
               /\ l.shipment_cost = CurrencyCompute(last.cost, currency)
        /\ lines \ ShipmentCostLines(lines) = run.base

\* C3: with no carrier, or a carrier whose cost method is not 'endicia', the
\* call returns without an error, leaves the lines as they were and sends no
\* request, whether or not a mail class is selected.
C3_OtherCarrierNoop ==
    (AppliedLast /\ carrier # "endicia") =>
        /\ last.out = "returned"
        /\ lines = last.pre
        /\ last.sent = <<>>

C3_Witness ==
    /\ AppliedLast
    /\ carrier = "other"
    /\ endicia_mailclass = 0
    /\ ShipmentCostLines(lines) # {}
    /\ last.out = "returned"

\* C4: when the price answered for the order's mail class is 0, the call
\* returns with the lines as they were: no line is created and no line,
\* a shipment-cost line of an earlier call included, is deleted.
C4_ZeroCostNoop ==
    (AppliedLast /\ last.responses = <<[kind |-> "price", amount |-> 0]>>) =>
        /\ last.out = "returned"
        /\ lines = last.pre

C4_Witness ==
    /\ AppliedLast
    /\ last.responses = <<[kind |-> "price", amount |-> 0]>>
    /\ last.out = "returned"
    /\ ShipmentCostLines(lines) # {}
    /\ run.n > 0

\* the rate-shopping call
ShoppedLast == last.op = "get_endicia_shipping_rates"

\* a line of a physical product, in a positive quantity, with no weight set
Unweighable(l) ==
    /\ l.product # "none"
    /\ Products[l.product].type # "service"
    /\ l.quantity > 0
    /\ Products[l.product].weight = 0

\* what quoting mail class m came to in the latest rate-shopping call
QuoteOutcome(m) ==
    IF \E l \in lines : Unweighable(l) THEN "MissingWeightError"
    ELSE IF last.responses[m].kind = "RequestError" THEN "CarrierRequestError"
    ELSE IF last.responses[m].kind = "Exception" THEN "Exception"
    ELSE "ok"

Succeeded == {m \in MailClasses : QuoteOutcome(m) = "ok"}

Failed == MailClasses \ Succeeded

First(S) == CHOOSE m \in S : \A k \in S : m <= k

\* the options are those of the mail classes in S, one each, in enumeration
\* order, each with the price answered for its mail class
OptionsAre(S) ==
    /\ Len(last.options) = Cardinality(S)
    /\ \A i \in 1 .. Len(last.options) :
           /\ last.options[i].mailclass \in S
           /\ last.options[i].cost = last.responses[last.options[i].mailclass].amount
    /\ \A i, j \in 1 .. Len(last.options) :
           i < j => last.options[i].mailclass < last.options[j].mailclass

\* the mail classes of the requests sent are cs, in this order
SentAre(cs) ==
    /\ Len(last.sent) = Len(cs)
    /\ \A i \in 1 .. Len(cs) : last.sent[i].mailclass = cs[i]

\* C5: a rate-shopping call that returns has quoted every mail class once,
\* in enumeration order, and returns one option per mail class whose quote
\* succeeded, in enumeration order, a failed mail class alone being left
\* out; with silent = false the first failure propagates: no options come
\* back and no later mail class is requested.
C5_RateOptions ==
    ShoppedLast =>
        /\ last.out = "ok" =>
               /\ OptionsAre(Succeeded)
               /\ (\A l \in lines : ~Unweighable(l)) =>
                      SentAre([i \in 1 .. NClasses |-> i])
        /\ (~last.silent /\ Failed = {}) => last.out = "ok"
        /\ (~last.silent /\ Failed # {}) =>
               /\ last.out = QuoteOutcome(First(Failed))
               /\ last.options = <<>>
               /\ \A i \in 1 .. Len(last.sent) :
                      last.sent[i].mailclass <= First(Failed)

C5_Witness ==
    /\ ShoppedLast /\ last.silent
    /\ Failed = {2}
    /\ last.out = "ok"
    /\ Len(last.options) = NClasses - 1
    /\ last.options[1].mailclass = 1

\* C6 as claimed: with silent = true a CarrierRequestError or a
\* MissingWeightError raised while quoting a mail class propagates at once
\* and no options come back.
C6_OnlyMailclassMissingSwallowed ==
    (/\ ShoppedLast /\ last.silent
     /\ Failed # {}
     /\ QuoteOutcome(First(Failed)) \in {"CarrierRequestError", "MissingWeightError"})
        => /\ last.out = QuoteOutcome(First(Failed))
           /\ last.options = <<>>

\* C6 as amended: with silent = true every UserError raised while quoting a
\* mail class, a CarrierRequestError or a MissingWeightError as much as a
\* MailClassMissingError, is swallowed and that mail class is skipped; only
\* an exception that is no UserError propagates at once, without options
\* and without a request for a later mail class.
C6_EveryUserErrorSwallowed ==
    (ShoppedLast /\ last.silent) =>
        LET broken == {m \in MailClasses : QuoteOutcome(m) = "Exception"}
        IN  IF broken = {}
            THEN last.out = "ok" /\ Len(last.options) = Cardinality(Succeeded)
            ELSE /\ last.out = "Exception"
                 /\ last.options = <<>>
                 /\ SentAre([i \in 1 .. First(broken) |-> i])

C6_Witness ==
    /\ ShoppedLast /\ last.silent
    /\ QuoteOutcome(1) = "CarrierRequestError"
    /\ Succeeded # {}
    /\ last.out = "ok"
    /\ Len(last.options) = Cardinality(Succeeded)

\* C7: a call of update_endicia_shipment_cost or quote changes the order's
\* lines only when the order is in the quotation state.
C7_OnlyInQuotation ==
    (AppliedLast /\ lines # last.pre) => state = "quotation"

\* C8: every request sent carries a mail class; a rate request without a
\* mail class argument on an order with none selected, and a shipping
\* application on an order of the Endicia carrier with none selected, fail
\* with MailClassMissingError, send nothing and leave the lines alone.
C8_NoRequestWithoutMailclass ==
    /\ \A i \in 1 .. Len(last.sent) : last.sent[i].mailclass \in MailClasses
    /\ (\/ last.op = "get_endicia_shipping_cost" /\ last.arg = 0
        \/ AppliedLast /\ carrier = "endicia")
         /\ endicia_mailclass = 0
       => /\ last.out = "MailClassMissingError"
          /\ last.sent = <<>>
          /\ lines = last.pre

C8_Witness ==
    /\ last.op = "get_endicia_shipping_cost"
    /\ last.arg = 0
    /\ endicia_mailclass = 0
    /\ carrier = "endicia"
    /\ lines # {}
    /\ last.out = "MailClassMissingError"

\* the exact weight of a line in ounces, as the fraction
\* ExactWeightNum / ExactWeightDen: the quantity in the product's default
\* unit times the unit weight, converted to ounces
ExactWeightNum(l) ==
    LET p == Products[l.product]
    IN  l.quantity * Uoms[l.unit].num * Uoms[p.default_uom].den
            * p.weight * Uoms[p.weight_uom].num

ExactWeightDen(l) ==
    LET p == Products[l.product]
    IN  10000 * Uoms[l.unit].den * Uoms[p.default_uom].num
            * Uoms[p.weight_uom].den

\* C9: the weight of a line is 0 when it has no product, a service, or a
\* quantity <= 0; for a physical product in a positive quantity the call
\* fails with MissingWeightError when the weight is unset or zero, and
\* otherwise returns the ceiling of the exact weight in ounces, which is
\* never below the exact weight.
C9_ShippingWeight ==
    last.op = "get_weight_for_endicia" =>
        LET l == last.line
        IN  IF l.product = "none" \/ l.quantity <= 0
            THEN last.out = "ok" /\ last.oz = 0
            ELSE IF Products[l.product].type = "service"
            THEN last.out = "ok" /\ last.oz = 0
            ELSE IF Products[l.product].weight = 0
            THEN last.out = "MissingWeightError"
            ELSE /\ last.out = "ok"
                 /\ last.oz = Ceil(ExactWeightNum(l), ExactWeightDen(l))
                 /\ last.oz * ExactWeightDen(l) >= ExactWeightNum(l)

\* C10: a shipping application sends at most one request; when it fails the
\* lines are those from before the call; when it writes, it has sent
\* exactly one request, and the lines are those from before, without the
\* shipment-cost lines among them and with the one created line.
C10_AllOrNothing ==
    AppliedLast =>
        /\ Len(last.sent) <= 1
        /\ last.out \in Failures => lines = last.pre
        /\ last.out = "written" =>
               /\ Len(last.sent) = 1
               /\ Cardinality(Created) = 1
               /\ lines = (last.pre \ ShipmentCostLines(last.pre)) \cup Created

C10_Witness ==
    /\ AppliedLast
    /\ last.out = "CarrierRequestError"
    /\ Len(last.sent) = 1
    /\ ShipmentCostLines(lines) # {}
    /\ lines = last.pre

====
